---- MODULE Spec2Model ----
(***************************************************************************)
(* PerfectSSH: the tunnel lifecycle of TunnelManager (src/tunnel.py), the  *)
(* SocksProxy listener it owns (src/proxy.py) and the established check of *)
(* the dashboard (src/ui.py), as a state machine.                          *)
(*                                                                         *)
(* The main thread runs connect() and disconnect() step by step (pc); the  *)
(* listener's serving thread, the per-flow handler threads and the monitor *)
(* loops run beside it.  The SSH servers, the local port and the client    *)
(* sockets are the environment: their answers are chosen with \E.          *)
(*                                                                         *)
(* Spec is the lifecycle; SpecFault adds teardown calls that raise,        *)
(* SpecExit the SIGINT/atexit path of src/main.py; SpecSocks follows one   *)
(* SocksHandler.handle() thread at a time, byte by byte, on an established *)
(* tunnel; SpecRelay follows one _forward relay read by read; SpecMon the  *)
(* TrafficMonitor loops and a reader of the counters; SpecDoctor the       *)
(* AutoDoctor (src/doctor.py) after a failed connect(); SpecUi the menu    *)
(* loop of src/main.py with the settings editor.                           *)
(***************************************************************************)
EXTENDS Integers, Sequences, FiniteSets, TLC

\* ------------------------------------------------------------------ bounds
MaxConnects == 2      \* connect() calls in one behaviour
MaxRepeat == 2        \* disconnect() calls in a row
MaxFlows == 1         \* per-flow handler threads alive at once
MaxClients == 2       \* SOCKS clients whose handler is followed byte by byte
MaxPayload == 2       \* bytes written by each side of a relayed flow
MaxIdle == 2          \* select timeouts of a relay
MaxFragments == 2     \* parts of an error message
MaxTicks == 3         \* passes of the monitor loops, all loops together
MaxTraffic == 2       \* steps of the NIC counters

\* -------------------------------------------------------- program constants
max_retries == 3
retry_delay == 2

None == 0

NSess == 2 * MaxConnects          \* a connect() creates at most two SSHClient objects
NProx == MaxConnects              \* and at most one SocksProxy object
SessIds == 1..NSess
ProxIds == 1..NProx

\* What a hop record of the loaded configuration looks like: complete, its
\* 'ip' empty, its 'port' empty, or the key absent from the JSON document.
HopKinds == {"ok", "no_ip", "no_port", "nokey"}
Modes == {"1_hop", "2_hop"}

\* An SSHClient object: "none" not created yet, "new" created and without a
\* transport, "unauth" transport up but authentication rejected, "active"
\* session established, "dead" transport present and no longer active,
\* "closed" closed by close() (no transport again).
SessStates == {"none", "new", "unauth", "active", "dead", "closed"}

\* A SocksProxy object: "none" not created, "unstarted" server = None and never
\* bound, "bound" server socket bound and listening, "stopped" server closed.
ProxStates == {"none", "unstarted", "bound", "stopped"}

\* Answers of an SSH server to SSHClient.connect().
TcpOutcomes == {"ok", "auth", "refused", "timeout", "ssherr"}
SockOutcomes == {"ok", "auth", "ssherr"}

ConnectPcs == {"c_try", "cd_connect", "cb_relay", "cb_chan", "cb_egress", "c_proxy",
               "c_bind", "c_thread", "c_monitor", "c_sysproxy", "c_except", "c_sleep"}
DiscPcs == {"d_listener", "d_egress", "d_relay", "d_monitor", "d_sysproxy"}

VARIABLES
    cfg,            \* config_manager.config: [mode, hop1, hop2]
    pc,             \* position of the main thread
    attempt,        \* loop variable of connect()
    exc,            \* the exception connect() is handling
    ssh_client,     \* TunnelManager.ssh_client (None or a session id)
    relay_client,   \* TunnelManager.relay_client
    socks_proxy,    \* TunnelManager.socks_proxy (None or a proxy id)
    sess,           \* the SSHClient objects: [st, via, closes]
    prox,           \* the SocksProxy objects: [st, srv, stops, trans, chans]
    monActive,      \* TrafficMonitor.active
    monThreads,     \* live _monitor_loop threads
    flowThreads,    \* live SocksHandler threads
    sysProxy,       \* the system proxy is registered
    nSess,          \* SSHClient objects created so far
    nProx,          \* SocksProxy objects created so far
    lastOp,         \* the operation that returned last
    result,         \* what the last connect() returned: [ok, err]
    attempts,       \* _connect_* calls made by the current/last connect()
    waited,         \* seconds slept by the current/last connect()
    pre,            \* the manager as the current/last connect() found it
    nConnects,      \* connect() calls so far
    dcount,         \* disconnect() calls in a row, the running one included
    client,         \* the SOCKS client being followed: [inp, after]
    h,              \* its SocksHandler.handle() thread
    nClients,       \* clients followed so far
    earlier,        \* how the handlers followed before ended
    flow,           \* the _forward relay of the handler followed, read by read
    tm,             \* the TrafficMonitor, its loops, the NIC and a reader
    doc             \* the AutoDoctor: a diagnosis and a repair run

vars == <<cfg, pc, attempt, exc, ssh_client, relay_client, socks_proxy, sess, prox,
          monActive, monThreads, flowThreads, sysProxy, nSess, nProx, lastOp, result,
          attempts, waited, pre, nConnects, dcount, client, h, nClients, earlier,
          flow, tm, doc>>

\* The tunnel lifecycle, and the SOCKS handler that is followed.
life == <<cfg, pc, attempt, exc, ssh_client, relay_client, socks_proxy, sess, prox,
          monActive, monThreads, flowThreads, sysProxy, nSess, nProx, lastOp, result,
          attempts, waited, pre, nConnects, dcount>>
side == <<flow, tm, doc>>
sk == <<client, h, nClients, earlier, flow, tm, doc>>

mgr == <<ssh_client, relay_client, socks_proxy>>
res == <<sess, prox, nSess, nProx>>
bg == <<monActive, monThreads, flowThreads, sysProxy>>
retry == <<attempt, exc, attempts, waited>>
hist == <<lastOp, result, pre, nConnects, dcount>>

\* ------------------------------------------------------------ the SSH library

\* SSHClient.get_transport() is not None
HasTransport(S, c) == S[c].st \in {"unauth", "active", "dead"}

\* Transport.is_active()
IsActive(S, c) == S[c].st \in {"unauth", "active"}

\* The sessions whose socket is a channel of c lose it when c goes away.
Sever(S, c) ==
    [i \in SessIds |->
        IF S[i].via = c /\ IsActive(S, i) THEN [S[i] EXCEPT !.st = "dead"] ELSE S[i]]

\* SSHClient.close(): nothing without a transport, else the transport is closed
\* and forgotten.
ClientClose(S, c) ==
    IF c = None \/ ~HasTransport(S, c)
    THEN S
    ELSE Sever([S EXCEPT ![c].st = "closed", ![c].closes = @ + 1], c)

\* SSHClient(): a fresh client object, without a transport.
NewClient(S, c, over) == [S EXCEPT ![c] = [st |-> "new", via |-> over, closes |-> 0]]

\* The state SSHClient.connect() leaves the client in, by the server's answer:
\* a TCP failure leaves no transport, a failed handshake a dead one, a rejected
\* authentication a live unauthenticated one.
AfterConnect(outcome) ==
    CASE outcome = "ok" -> "active"
      [] outcome = "auth" -> "unauth"
      [] outcome = "ssherr" -> "dead"
      [] OTHER -> "new"

\* ---------------------------------------------------------------------- Init

NoSess == [st |-> "none", via |-> None, closes |-> 0]
NoProx == [st |-> "none", srv |-> "none", stops |-> 0, trans |-> None, chans |-> {}]
NoPre == [est |-> FALSE, ssh |-> None, relay |-> None, proxy |-> None,
          nSess |-> 0, nProx |-> 0, mon |-> 0, reg |-> FALSE]
NoResult == [ok |-> FALSE, err |-> "none"]
NoClient == [inp |-> <<>>, after |-> "none"]
NoAddr == [kind |-> "none", bytes |-> <<>>]
NoChan == [st |-> "none", host |-> NoAddr, port |-> 0, orig |-> "none"]

\* A handler thread at the first line of handle(); pc "none": no handler followed.
NoHandler ==
    [pc |-> "none", trans |-> None, pos |-> 0, nmethods |-> 0, details |-> <<>>, addr_len |-> 0,
     dest_addr |-> NoAddr, dest_port |-> 0, sent |-> <<>>, chan |-> NoChan,
     relayed |-> FALSE, closed |-> FALSE]

\* A relay: cw the bytes the client wrote after its request, cr how many of
\* them the relay has read, up the bytes passed to the channel; rw, rr, down
\* the same from the channel to the client; cend, rend how each side stands;
\* due the bytes the client had written when the first side closed; idle the
\* select timeouts so far.
NoFlow ==
    [pc |-> "none", cw |-> <<>>, cr |-> 0, up |-> <<>>, rw |-> <<>>, rr |-> 0,
     down |-> <<>>, cend |-> "open", rend |-> "open", due |-> 0, idle |-> 0,
     raised |-> FALSE]

\* The TrafficMonitor object (tunnel.py 18-24) with what surrounds it: rx, tx,
\* total are rx_speed, tx_speed, total_data; nic the cumulative counters of
\* psutil; loops the _monitor_loop threads, each with its locals last_io and
\* curr_io, the value it computed for total_data (tmp) and the number of its
\* pass (id); reader a caller of get_formatted_stats.  tagRx, tagTx, tagTot
\* tell which pass wrote each attribute last; done and sum are the deltas of
\* the pass completed last and the sum of the deltas of all completed passes.
LoopIds == 1..MaxConnects
NoIo == [recv |-> 0, sent |-> 0]
NoLoop == [pc |-> "none", id |-> 0, last |-> NoIo, curr |-> NoIo, tmp |-> 0]
NoReader == [pc |-> "idle", rx |-> 0, tx |-> 0, total |-> 0,
             tagRx |-> 0, tagTx |-> 0, tagTot |-> 0]
NoMon ==
    [rx |-> 0, tx |-> 0, total |-> 0, nic |-> NoIo, loops |-> [i \in LoopIds |-> NoLoop],
     reader |-> NoReader, tagRx |-> 0, tagTx |-> 0, tagTot |-> 0, ticks |-> 0,
     traffic |-> 0, failed |-> 0, done |-> [rx |-> 0, tx |-> 0], sum |-> 0,
     fresh |-> FALSE]
\* The patterns analyze_error looks for (doctor.py 27-99).
Patterns ==
    {"permission denied", "authentication failed", "too many authentication failures",
     "connection refused", "connection timed out", "timed out", "no route to host",
     "network is unreachable", "channel setup failed", "tcp forwarding", "broken pipe",
     "connection reset by peer", "host key verification failed",
     "resource temporarily unavailable"}

\* An error message is a sequence of parts; a part is a piece of text, written
\* as in Patterns or in capitals.  "unknown host" stands for text that holds
\* no pattern.
Texts == Patterns \cup {"unknown host"}
Fragments == [text : Texts, upper : BOOLEAN]
ErrorMessages == UNION {[1..n -> Fragments] : n \in 0..MaxFragments}

\* The scripts _run_remote_script is called with (its operation_name) and the
\* sentinel tokens each script echoes.
Ops == {"network_repair", "ssh_repair", "security_fix", "performance_opt", "verification"}
SentinelsOf(op) ==
    CASE op = "ssh_repair" -> {"SSH_REPAIR_COMPLETE"}
      [] op = "verification" -> {"SSH_ACTIVE", "TCP_FORWARDING_ENABLED", "FIREWALL_OPEN"}
      [] OTHER -> {}

\* The AutoDoctor as main.py uses it: msg the message of the failed connect(),
\* diagnosis what analyze_error returned, probe the result of the ping, out the
\* tuple _run_remote_script returned for each script (output: the sentinels in
\* the returned string), ran the scripts run so far, verified what
\* _verify_repair returned, repaired and repair_msg what repair_server returned.
NoDiagnosis ==
    [reason |-> "none", fixable |-> FALSE, severity |-> "none", category |-> "none",
     solutions |-> <<>>]
NoOut == [ok |-> FALSE, output |-> {}]
NoDoc ==
    [pc |-> "none", msg |-> <<>>, diagnosis |-> NoDiagnosis, probe |-> "none",
     out |-> [o \in Ops |-> NoOut], ran |-> <<>>, verified |-> "none",
     repaired |-> "none", repair_msg |-> "none"]

NoFollowed ==
    /\ client = NoClient
    /\ h = NoHandler
    /\ nClients = 0
    /\ earlier = {}

NoSide ==
    /\ flow = NoFlow
    /\ tm = NoMon
    /\ doc = NoDoc

Init ==
    /\ cfg \in [mode : Modes, hop1 : HopKinds, hop2 : HopKinds]
    /\ pc = "idle"
    /\ attempt = 0
    /\ exc = "none"
    /\ ssh_client = None
    /\ relay_client = None
    /\ socks_proxy = None
    /\ sess = [i \in SessIds |-> NoSess]
    /\ prox = [p \in ProxIds |-> NoProx]
    /\ monActive = FALSE
    /\ monThreads = 0
    /\ flowThreads = 0
    /\ sysProxy = FALSE
    /\ nSess = 0
    /\ nProx = 0
    /\ lastOp = "none"
    /\ result = NoResult
    /\ attempts = 0
    /\ waited = 0
    /\ pre = NoPre
    /\ nConnects = 0
    /\ dcount = 0
    /\ NoFollowed
    /\ NoSide

\* ------------------------------------------------------------ established check

\* `manager.ssh_client and manager.ssh_client.get_transport().is_active()`:
\* get_transport() of a client without a transport is None, and None has no
\* is_active: the expression raises AttributeError.
EstablishedCheck ==
    IF ssh_client = None THEN "False"
    ELSE IF ~HasTransport(sess, ssh_client) THEN "AttributeError"
    ELSE IF IsActive(sess, ssh_client) THEN "True" ELSE "False"

\* ------------------------------------------------------------------- connect()

\* A connect() has succeeded and its session is still up.
SessionUp == ssh_client # None /\ sess[ssh_client].st = "active"

Snapshot ==
    [est |-> SessionUp, ssh |-> ssh_client, relay |-> relay_client,
     proxy |-> socks_proxy, nSess |-> nSess, nProx |-> nProx,
     mon |-> monThreads, reg |-> sysProxy]

\* connect(), lines 74-78: read the configuration, kill stale ssh processes (no
\* object of this process is one), enter the retry loop.
Connect ==
    /\ pc = "idle"
    /\ nConnects < MaxConnects
    /\ pc' = "c_try"
    /\ attempt' = 0
    /\ exc' = "none"
    /\ attempts' = 0
    /\ waited' = 0
    /\ pre' = Snapshot
    /\ nConnects' = nConnects + 1
    /\ dcount' = 0
    /\ result' = NoResult
    /\ UNCHANGED <<sk, cfg, mgr, res, bg, lastOp>>

\* `return ok, msg` of connect()
Return(ok, err) ==
    /\ pc' = "idle"
    /\ lastOp' = "connect"
    /\ result' = [ok |-> ok, err |-> err]

\* A try block whose handlers let AuthenticationException through.
HandledInTryAuthEscapes(err) == err # "auth"

\* The except clauses of the try block of _connect_direct (123-131) and of
\* _connect_bridge (182-196) catch every exception raised inside it.
HandledInTry(err) == TRUE

\* An exception raised inside the try block, with the objects as S: a handler
\* returns (False, message), the bridge handlers after closing the relay client;
\* an exception no handler catches reaches the except clause of connect().
Fail(err, S) ==
    IF HandledInTry(err)
    THEN /\ sess' = IF cfg.mode = "2_hop" THEN ClientClose(S, relay_client) ELSE S
         /\ Return(FALSE, err)
         /\ exc' = exc
    ELSE /\ sess' = S
         /\ pc' = "c_except"
         /\ exc' = err
         /\ UNCHANGED <<lastOp, result>>

\* One pass of the loop body up to the try block: _connect_direct 94-101 or
\* _connect_bridge 134-143.  A hop key absent from the configuration raises
\* KeyError outside any try block of _connect_*.
TryAttempt ==
    /\ pc = "c_try"
    /\ nSess < NSess
    /\ attempts' = attempts + 1
    /\ LET needed == IF cfg.mode = "1_hop" THEN {cfg.hop1} ELSE {cfg.hop1, cfg.hop2}
       IN  IF "nokey" \in needed
           THEN /\ pc' = "c_except"
                /\ exc' = "keyerr"
                /\ UNCHANGED <<mgr, res, lastOp, result>>
           ELSE IF "no_ip" \in needed
           THEN /\ Return(FALSE, "config")
                /\ UNCHANGED <<mgr, res, exc>>
           ELSE /\ nSess' = nSess + 1
                /\ sess' = NewClient(sess, nSess + 1, None)
                /\ IF cfg.mode = "1_hop"
                   THEN /\ ssh_client' = nSess + 1
                        /\ pc' = "cd_connect"
                        /\ UNCHANGED relay_client
                   ELSE /\ relay_client' = nSess + 1
                        /\ pc' = "cb_relay"
                        /\ UNCHANGED ssh_client
                /\ UNCHANGED <<socks_proxy, prox, nProx, exc, lastOp, result>>
    /\ UNCHANGED <<sk, cfg, attempt, waited, bg, pre, nConnects, dcount>>

\* self.<client>.connect(...) on a fresh TCP connection to hop1: int('') of an
\* empty port raises ValueError, else the server answers.
ConnectHop1(c, next) ==
    /\ IF cfg.hop1 = "no_port"
       THEN Fail("valueerr", sess)
       ELSE \E o \in TcpOutcomes :
              LET S == [sess EXCEPT ![c].st = AfterConnect(o)]
              IN  IF o = "ok"
                  THEN /\ sess' = S
                       /\ pc' = next
                       /\ UNCHANGED <<exc, lastOp, result>>
                  ELSE Fail(o, S)
    /\ UNCHANGED <<sk, cfg, attempt, attempts, waited, mgr, prox, nSess, nProx, bg, pre,
                   nConnects, dcount>>

\* _connect_direct 104-110
DirectConnect ==
    /\ pc = "cd_connect"
    /\ ConnectHop1(ssh_client, "c_proxy")

\* _connect_bridge 146-152
RelayConnect ==
    /\ pc = "cb_relay"
    /\ ConnectHop1(relay_client, "cb_chan")

\* _connect_bridge 156-158: the arguments are evaluated first (int('') raises
\* ValueError), then the relay is asked for a direct-tcpip channel to hop2.
OpenChannel ==
    /\ pc = "cb_chan"
    /\ IF cfg.hop2 = "no_port"
       THEN Fail("valueerr", sess)
       ELSE \E granted \in BOOLEAN :
              IF granted /\ IsActive(sess, relay_client)
              THEN /\ pc' = "cb_egress"
                   /\ UNCHANGED <<sess, exc, lastOp, result>>
              ELSE Fail("chan", sess)
    /\ UNCHANGED <<sk, cfg, attempt, attempts, waited, mgr, prox, nSess, nProx, bg, pre,
                   nConnects, dcount>>

\* _connect_bridge 160-169: a second client, connected over the channel.
EgressConnect ==
    /\ pc = "cb_egress"
    /\ nSess < NSess
    /\ nSess' = nSess + 1
    /\ ssh_client' = nSess + 1
    /\ \E o \in SockOutcomes :
         LET S == [NewClient(sess, nSess + 1, relay_client) EXCEPT
                     ![nSess + 1].st = AfterConnect(o)]
         IN  IF o = "ok" /\ IsActive(sess, relay_client)
             THEN /\ sess' = S
                  /\ pc' = "c_proxy"
                  /\ UNCHANGED <<exc, lastOp, result>>
             ELSE Fail(IF o = "ok" THEN "ssherr" ELSE o,
                       IF o = "ok" THEN [S EXCEPT ![nSess + 1].st = "dead"] ELSE S)
    /\ UNCHANGED <<sk, cfg, attempt, attempts, waited, relay_client, socks_proxy, prox, nProx,
                   bg, pre, nConnects, dcount>>

\* A proxy handed the transport of the relay client where there is one.
ProxyTransportRelayFirst == IF relay_client # None THEN relay_client ELSE ssh_client

\* The transport handed to the proxy: self.ssh_client.get_transport()
\* (tunnel.py 113 / 172), kept as SocksProxy.ssh_transport (proxy.py 17).
ProxyTransport == ssh_client

\* _connect_direct 113-114 / _connect_bridge 172-173: the new SocksProxy object
\* replaces whatever self.socks_proxy held.
MakeProxy ==
    /\ pc = "c_proxy"
    /\ nProx < NProx
    /\ nProx' = nProx + 1
    /\ socks_proxy' = nProx + 1
    /\ prox' = [prox EXCEPT ![nProx + 1].st = "unstarted",
                            ![nProx + 1].trans = ProxyTransport]
    /\ pc' = "c_bind"
    /\ UNCHANGED <<sk, cfg, retry, ssh_client, relay_client, sess, nSess, bg, hist>>

\* local_port is taken: by a listener of this process or by another process.
PortBusy(foreign) == foreign \/ \E p \in ProxIds : prox[p].st = "bound"

\* SocksProxy.start, proxy.py 111: ThreadingTCPServer(...) binds and listens;
\* a bind that fails raises OSError and leaves no socket.
BindListener ==
    /\ pc = "c_bind"
    /\ \E foreign \in BOOLEAN :
         IF PortBusy(foreign)
         THEN /\ Fail("bind", sess)
              /\ UNCHANGED prox
         ELSE /\ prox' = [prox EXCEPT ![socks_proxy].st = "bound"]
              /\ pc' = "c_thread"
              /\ UNCHANGED <<sess, exc, lastOp, result>>
    /\ UNCHANGED <<sk, cfg, attempt, attempts, waited, mgr, nSess, nProx, bg, pre, nConnects,
                   dcount>>

\* A start() that returns without starting the serving thread.
StartServerThreadSkipped ==
    /\ pc = "c_thread"
    /\ pc' = "c_monitor"
    /\ UNCHANGED <<sk, cfg, retry, mgr, res, bg, hist>>

\* SocksProxy.start, proxy.py 112-114: the serving thread runs serve_forever.
StartServerThread ==
    /\ pc = "c_thread"
    /\ prox' = [prox EXCEPT ![socks_proxy].srv = "running"]
    /\ pc' = "c_monitor"
    /\ UNCHANGED <<sk, cfg, retry, mgr, sess, nSess, nProx, bg, hist>>

\* TrafficMonitor.start, tunnel.py 26-29 (called at 118 / 177)
StartMonitor ==
    /\ pc = "c_monitor"
    /\ monActive' = TRUE
    /\ monThreads' = monThreads + 1
    /\ pc' = "c_sysproxy"
    /\ UNCHANGED <<sk, cfg, retry, mgr, res, flowThreads, sysProxy, hist>>

\* set_system_proxy(True, port) and `return True, "Connected"` (119-121 / 178-180)
RegisterProxy ==
    /\ pc = "c_sysproxy"
    /\ sysProxy' = TRUE
    /\ Return(TRUE, "none")
    /\ UNCHANGED <<sk, cfg, retry, mgr, res, monActive, monThreads, flowThreads, pre,
                   nConnects, dcount>>

\* The last-attempt test off by one.
LastAttemptOffByOne(a) == a = max_retries

\* `attempt == self.max_retries - 1`, connect() line 88
LastAttempt(a) == a = max_retries - 1

\* The except clause of connect(), 86-90
RetryExcept ==
    /\ pc = "c_except"
    /\ IF LastAttempt(attempt)
       THEN Return(FALSE, exc)
       ELSE /\ pc' = "c_sleep"
            /\ UNCHANGED <<lastOp, result>>
    /\ UNCHANGED <<sk, cfg, retry, mgr, res, bg, pre, nConnects, dcount>>

\* time.sleep(self.retry_delay), line 91, and the next value of range(max_retries);
\* a loop that runs out falls off the end of connect(), which returns None.
Backoff ==
    /\ pc = "c_sleep"
    /\ waited' = waited + retry_delay
    /\ attempt' = attempt + 1
    /\ IF attempt + 1 < max_retries
       THEN /\ pc' = "c_try"
            /\ UNCHANGED <<lastOp, result>>
       ELSE Return(FALSE, "returned_none")
    /\ UNCHANGED <<sk, cfg, exc, attempts, mgr, res, bg, pre, nConnects, dcount>>

\* ---------------------------------------------------------------- disconnect()

\* disconnect() is entered (line 199).
Disconnect ==
    /\ pc = "idle"
    /\ dcount < MaxRepeat
    /\ dcount' = dcount + 1
    /\ pc' = "d_listener"
    /\ UNCHANGED <<sk, cfg, retry, mgr, res, bg, lastOp, result, pre, nConnects>>

\* SocksProxy.stop, proxy.py 117-122: with a server, shutdown() waits for
\* serve_forever to leave its loop, server_close() closes the socket, and the
\* server is forgotten.
ProxyStop(P, p) ==
    IF P[p].st = "bound"
    THEN [P EXCEPT ![p].st = "stopped", ![p].srv = "exited", ![p].stops = @ + 1]
    ELSE P

\* shutdown() returns only once serve_forever has run and left its loop.
ShutdownBlocks(p) == prox[p].st = "bound" /\ prox[p].srv # "running"

\* disconnect() 200-203
StopListener ==
    /\ pc = "d_listener"
    /\ IF socks_proxy # None
       THEN /\ ~ShutdownBlocks(socks_proxy)
            /\ prox' = ProxyStop(prox, socks_proxy)
            /\ socks_proxy' = None
       ELSE UNCHANGED <<prox, socks_proxy>>
    /\ pc' = "d_egress"
    /\ UNCHANGED <<sk, cfg, retry, ssh_client, relay_client, sess, nSess, nProx, bg, hist>>

\* The relay client closed ahead of the egress client.
CloseEgressAfterRelay ==
    /\ pc = "d_egress"
    /\ sess' = ClientClose(ClientClose(sess, relay_client), ssh_client)
    /\ pc' = "d_relay"
    /\ UNCHANGED <<sk, cfg, retry, mgr, prox, nSess, nProx, bg, hist>>

\* disconnect() 204-206
CloseEgress ==
    /\ pc = "d_egress"
    /\ sess' = ClientClose(sess, ssh_client)
    /\ pc' = "d_relay"
    /\ UNCHANGED <<sk, cfg, retry, mgr, prox, nSess, nProx, bg, hist>>

\* A teardown that forgets the relay client.
CloseRelayForgotten ==
    /\ pc = "d_relay"
    /\ pc' = "d_monitor"
    /\ UNCHANGED <<sk, cfg, retry, mgr, res, bg, hist>>

\* disconnect() 207-209
CloseRelay ==
    /\ pc = "d_relay"
    /\ sess' = ClientClose(sess, relay_client)
    /\ pc' = "d_monitor"
    /\ UNCHANGED <<sk, cfg, retry, mgr, prox, nSess, nProx, bg, hist>>

\* TrafficMonitor.stop, tunnel.py 31-32 (called at 210): the flag only.
StopMonitor ==
    /\ pc = "d_monitor"
    /\ monActive' = FALSE
    /\ pc' = "d_sysproxy"
    /\ UNCHANGED <<sk, cfg, retry, mgr, res, monThreads, flowThreads, sysProxy, hist>>

\* disconnect() 211-213: set_system_proxy(False), kill stale ssh processes, return.
\* Called by the exit path (lastOp = "interrupted"), the process ends after it.
UnregisterProxy ==
    /\ pc = "d_sysproxy"
    /\ sysProxy' = FALSE
    /\ pc' = IF lastOp = "interrupted" THEN "exited" ELSE "idle"
    /\ lastOp' = IF lastOp = "interrupted" THEN lastOp ELSE "disconnect"
    /\ UNCHANGED <<sk, cfg, retry, mgr, res, monActive, monThreads, flowThreads, result, pre,
                   nConnects, dcount>>

\* ------------------------------------------------------- failures and interrupts

\* A teardown call of disconnect() raises (SocksProxy.stop at 202, ssh_client
\* .close at 205, relay_client.close at 208): no statement of disconnect()
\* stands in a try, so the exception leaves disconnect() at that line and the
\* lines after it are not run.
StepRaises ==
    /\ \/ pc = "d_listener" /\ socks_proxy # None
       \/ pc = "d_egress" /\ ssh_client # None
       \/ pc = "d_relay" /\ relay_client # None
    /\ lastOp # "interrupted"
    /\ pc' = "idle"
    /\ lastOp' = "disconnect_raised"
    /\ UNCHANGED <<sk, cfg, retry, mgr, res, bg, result, pre, nConnects, dcount>>

\* SIGINT while connect() runs: signal_handler (main.py 65-69) raises SystemExit
\* in the main thread, which no `except Exception` of connect() catches, and the
\* interpreter runs the atexit hook manager.disconnect (main.py 80).
Interrupt ==
    /\ pc \in ConnectPcs
    /\ lastOp' = "interrupted"
    /\ dcount' = 1
    /\ pc' = "d_listener"
    /\ UNCHANGED <<sk, cfg, retry, mgr, res, bg, result, pre, nConnects>>

\* ------------------------------------------------- background threads, environment

\* An SSH transport goes away (the server or the network drops it).
TransportDeath ==
    \E c \in SessIds :
        /\ IsActive(sess, c)
        /\ sess' = Sever([sess EXCEPT ![c].st = "dead"], c)
        /\ UNCHANGED <<sk, cfg, pc, retry, mgr, prox, nSess, nProx, bg, hist>>

\* serve_forever of a bound listener accepts a client: ThreadingMixIn starts a
\* daemon thread running SocksHandler.handle (proxy.py 10-12, 25).  A handler
\* that gets as far as line 73 opens its channel on SocksHandler.transport, the
\* transport of its proxy (proxy.py 23); chans records where channels were
\* asked for.
Accept ==
    \E p \in ProxIds, opens \in BOOLEAN :
        /\ prox[p].st = "bound"
        /\ prox[p].srv = "running"
        /\ flowThreads < MaxFlows
        /\ flowThreads' = flowThreads + 1
        /\ prox' = IF opens THEN [prox EXCEPT ![p].chans = @ \cup {prox[p].trans}] ELSE prox
        /\ UNCHANGED <<sk, cfg, pc, retry, mgr, sess, nSess, nProx, monActive, monThreads,
                       sysProxy, hist>>

\* A handler thread comes to the end of handle() (proxy.py 89-91).
FlowExit ==
    /\ flowThreads > 0
    /\ flowThreads' = flowThreads - 1
    /\ UNCHANGED <<sk, cfg, pc, retry, mgr, res, monActive, monThreads, sysProxy, hist>>

\* A _monitor_loop thread reads self.active as False and ends (tunnel.py 37).
MonitorExit ==
    /\ monThreads > 0
    /\ ~monActive
    /\ monThreads' = monThreads - 1
    /\ UNCHANGED <<sk, cfg, pc, retry, mgr, res, monActive, flowThreads, sysProxy, hist>>

\* ------------------------------------------------------------------------ Spec

Next ==
    \/ Connect
    \/ TryAttempt
    \/ DirectConnect
    \/ RelayConnect
    \/ OpenChannel
    \/ EgressConnect
    \/ MakeProxy
    \/ BindListener
    \/ StartServerThread
    \/ StartMonitor
    \/ RegisterProxy
    \/ RetryExcept
    \/ Backoff
    \/ Disconnect
    \/ StopListener
    \/ CloseEgress
    \/ CloseRelay
    \/ StopMonitor
    \/ UnregisterProxy
    \/ TransportDeath
    \/ Accept
    \/ FlowExit
    \/ MonitorExit

Spec == Init /\ [][Next]_vars

\* The lifecycle with teardown calls that may fail.
NextFault ==
    \/ Next
    \/ StepRaises

SpecFault == Init /\ [][NextFault]_vars

\* The lifecycle with the interrupt/exit path.
NextExit ==
    \/ Next
    \/ Interrupt

SpecExit == Init /\ [][NextExit]_vars

\* The main loop of src/main.py, which calls the manager only from its menu.

\* main.py 87-89 and 92-93: the menu is shown when show_dashboard (ui.py 30-59)
\* returned False, and it offers Connect when is_configured() (config.py 42-44).
AtMenu == pc = "idle" /\ EstablishedCheck = "False"

\* main.py 124-127: the menu's Connect.  Nothing is called before connect().
MenuConnect ==
    /\ AtMenu
    /\ cfg.hop1 # "no_ip"
    /\ Connect

\* show_settings, ui.py 62-107, from main.py 183-185: mode and hops are
\* assigned in manager.config_manager.config and saved; the manager is not
\* called.  Each prompt reads the present value as its default, so every key
\* of an edited hop exists before and after.
EditSettings ==
    /\ AtMenu
    /\ cfg.hop1 # "nokey"
    /\ \E mode \in Modes, hop1 \in HopKinds \ {"nokey"}, hop2 \in HopKinds \ {"nokey"} :
         /\ mode = "2_hop" => cfg.hop2 # "nokey"
         /\ cfg' = [mode |-> mode, hop1 |-> hop1,
                    hop2 |-> IF mode = "2_hop" THEN hop2 ELSE cfg.hop2]
    /\ lastOp' = "settings"
    /\ UNCHANGED <<sk, pc, retry, mgr, res, bg, result, pre, nConnects, dcount>>

\* The program is left between operations: Exit of the menu (main.py 117-121),
\* SIGINT in the dashboard or the menu (signal_handler 65-69), or the
\* AttributeError of show_dashboard; disconnect() runs, directly or as the
\* atexit hook (main.py 80), and the process ends.
LeaveProgram ==
    /\ pc = "idle"
    /\ lastOp' = "interrupted"
    /\ dcount' = 1
    /\ pc' = "d_listener"
    /\ UNCHANGED <<sk, cfg, retry, mgr, res, bg, result, pre, nConnects>>

NextUi ==
    \/ MenuConnect
    \/ EditSettings
    \/ LeaveProgram
    \/ Interrupt
    \/ TryAttempt
    \/ DirectConnect
    \/ RelayConnect
    \/ OpenChannel
    \/ EgressConnect
    \/ MakeProxy
    \/ BindListener
    \/ StartServerThread
    \/ StartMonitor
    \/ RegisterProxy
    \/ RetryExcept
    \/ Backoff
    \/ StopListener
    \/ CloseEgress
    \/ CloseRelay
    \/ StopMonitor
    \/ UnregisterProxy
    \/ TransportDeath
    \/ Accept
    \/ FlowExit
    \/ MonitorExit

SpecUi == Init /\ [][NextUi]_vars

\* ------------------------------------------------- SocksHandler.handle()

\* Bytes of the SOCKS5 protocol as handle() tests and sends them.
SocksVer == 5
CmdConnect == 1
AtypIPv4 == 1
AtypDomain == 3
AtypIPv6 == 4
AtypOther == 9        \* stands for every ATYP that is none of 1, 3, 4
RepSucceeded == 0
RepHostUnreachable == 4
RepCommandNotSupported == 7
RepAddressNotSupported == 8

MethodReply == <<SocksVer, 0>>
Reply(rep) == <<SocksVer, rep, 0, 1, 0, 0, 0, 0, 0, 0>>

\* What clients write: a greeting VER NMETHODS METHODS, then a request
\* VER CMD RSV ATYP ADDR PORT, with good and bad values of each field, cut off
\* after any number of bytes.  The address of an IPv6 or unknown ATYP is never
\* read by handle() and is left out.
Greeting(v, n) == <<v, n>> \o [i \in 1..n |-> 0]
AddrsOf(a) ==
    CASE a = AtypIPv4 -> {<<10, 0, 0, 1>>}
      [] a = AtypDomain -> {<<1, 97>>, <<2, 97, 98>>}
      [] OTHER -> {<<>>}
PortsSent == {<<0, 80>>, <<1, 187>>}
RequestsOf(a) ==
    {<<rv, c, 0, a>> \o ad \o po :
        rv \in {SocksVer, 4}, c \in {CmdConnect, 2}, ad \in AddrsOf(a), po \in PortsSent}
Requests == UNION {RequestsOf(a) : a \in {AtypIPv4, AtypDomain, AtypIPv6, AtypOther}}
Messages == {Greeting(v, n) \o r : v \in {SocksVer, 4}, n \in 0..2, r \in Requests}
SocksInputs == UNION {{SubSeq(m, 1, k) : k \in 0..Len(m)} : m \in Messages}

\* After its bytes the client keeps the connection open and reads the replies
\* ("waits"), or closes it ("closes").
Clients == [inp : SocksInputs, after : {"waits", "closes"}]

\* socket.recv(n): n = 0 returns at once; else it returns between one and n of
\* the bytes that have arrived, whatever the client's segments were; with no
\* byte left it returns b'' once the client has closed and waits until then.
Recv(n) ==
    LET avail == Len(client.inp) - h.pos
    IN  IF n = 0 THEN {<<>>}
        ELSE IF avail > 0
        THEN {SubSeq(client.inp, h.pos + 1, h.pos + k) :
                k \in 1..(IF n < avail THEN n ELSE avail)}
        ELSE IF client.after = "closes" THEN {<<>>} ELSE {}

Took(H, b) == [H EXCEPT !.pos = @ + Len(b)]

\* socket.sendall(): it can fail only towards a client that has closed.
SendOutcomes == IF client.after = "closes" THEN BOOLEAN ELSE {TRUE}

\* `return` or an exception inside handle(): `except Exception: pass`, then the
\* finally clause closes the client socket (proxy.py 86-91).
HEnd(H) == [H EXCEPT !.pc = "closed", !.closed = TRUE]

\* sendall(msg) followed by `return`; a failing sendall raises into the same
\* finally clause.
ReplyAndEnd(H, msg, sent) == HEnd(IF sent THEN [H EXCEPT !.sent = Append(@, msg)] ELSE H)

\* A server that runs handle() inside its serve loop.
HandlerInServeLoop == FALSE

\* ThreadingTCPServer (proxy.py 10-12): ThreadingMixIn runs each handle() in a
\* thread of its own.
HandlerPerThread == TRUE

\* serve_forever accepts a client and ThreadingMixIn starts its handler thread
\* (proxy.py 10-12); the handler works on the transport of its proxy (23).
\* The serve loop is back at accept at once; it would wait for handlers still
\* running only if they ran inside it.
SocksAccept ==
    /\ h.pc = "none"
    /\ nClients < MaxClients
    /\ HandlerPerThread \/ "running" \notin earlier
    /\ \E p \in ProxIds, c \in Clients :
         /\ prox[p].st = "bound"
         /\ prox[p].srv = "running"
         /\ client' = c
         /\ h' = [NoHandler EXCEPT !.pc = "h_greet", !.trans = prox[p].trans]
    /\ nClients' = nClients + 1
    /\ UNCHANGED <<life, side, earlier>>

\* proxy.py 29-33: header[1] of a one-byte header raises IndexError.
HGreeting ==
    /\ h.pc = "h_greet"
    /\ \E header \in Recv(2) :
         h' = IF header = <<>> \/ header[1] # SocksVer \/ Len(header) < 2
              THEN HEnd(Took(h, header))
              ELSE [Took(h, header) EXCEPT !.pc = "h_methods", !.nmethods = header[2]]
    /\ UNCHANGED <<life, side, client, nClients, earlier>>

\* proxy.py 34-37: whatever recv(nmethods) returns is dropped, then the method
\* choice is sent.
HMethods ==
    /\ h.pc = "h_methods"
    /\ \E methods \in Recv(h.nmethods), sent \in SendOutcomes :
         h' = IF sent
              THEN [Took(h, methods) EXCEPT !.pc = "h_details",
                                            !.sent = Append(@, MethodReply)]
              ELSE HEnd(Took(h, methods))
    /\ UNCHANGED <<life, side, client, nClients, earlier>>

\* proxy.py 41-63: the request header; ver and rsv are unpacked and not used.
HDetails ==
    /\ h.pc = "h_details"
    /\ \E details \in Recv(4), sent \in SendOutcomes :
         LET H == [Took(h, details) EXCEPT !.details = details]
         IN  h' = IF Len(details) < 4 THEN HEnd(H)
                  ELSE IF details[2] # CmdConnect
                  THEN ReplyAndEnd(H, Reply(RepCommandNotSupported), sent)
                  ELSE IF details[4] = AtypIPv4 THEN [H EXCEPT !.pc = "h_addr4"]
                  ELSE IF details[4] = AtypDomain THEN [H EXCEPT !.pc = "h_alen"]
                  ELSE IF details[4] = AtypIPv6
                  THEN ReplyAndEnd(H, Reply(RepAddressNotSupported), sent)
                  ELSE HEnd(H)
    /\ UNCHANGED <<life, side, client, nClients, earlier>>

\* proxy.py 53-54: inet_ntoa raises OSError unless it is given four bytes.
HAddr4 ==
    /\ h.pc = "h_addr4"
    /\ \E addr_bytes \in Recv(4) :
         h' = IF Len(addr_bytes) # 4 THEN HEnd(Took(h, addr_bytes))
              ELSE [Took(h, addr_bytes) EXCEPT
                      !.pc = "h_port", !.dest_addr = [kind |-> "ip4", bytes |-> addr_bytes]]
    /\ UNCHANGED <<life, side, client, nClients, earlier>>

\* proxy.py 56: ord(b'') raises TypeError.
HAddrLen ==
    /\ h.pc = "h_alen"
    /\ \E b \in Recv(1) :
         h' = IF b = <<>> THEN HEnd(h)
              ELSE [Took(h, b) EXCEPT !.pc = "h_aname", !.addr_len = b[1]]
    /\ UNCHANGED <<life, side, client, nClients, earlier>>

\* proxy.py 57: the bytes of one recv(addr_len), decoded, are the host name.
HAddrName ==
    /\ h.pc = "h_aname"
    /\ \E b \in Recv(h.addr_len) :
         h' = [Took(h, b) EXCEPT !.pc = "h_port",
                                 !.dest_addr = [kind |-> "name", bytes |-> b]]
    /\ UNCHANGED <<life, side, client, nClients, earlier>>

\* proxy.py 66-67: struct.unpack('>H', ...) raises struct.error unless it is
\* given two bytes.
HPort ==
    /\ h.pc = "h_port"
    /\ \E port_bytes \in Recv(2) :
         h' = IF Len(port_bytes) # 2 THEN HEnd(Took(h, port_bytes))
              ELSE [Took(h, port_bytes) EXCEPT
                      !.pc = "h_open", !.dest_port = port_bytes[1] * 256 + port_bytes[2]]
    /\ UNCHANGED <<life, side, client, nClients, earlier>>

\* The reply sent when open_channel raised.
OpenFailedReplySuccess == Reply(RepSucceeded)

OpenFailedReply == Reply(RepHostUnreachable)

\* proxy.py 70-84: open_channel("direct-tcpip", (dest_addr, dest_port), peer)
\* on the handler's transport.  It raises on a transport that is not an
\* established session and when the server refuses: reply 04 and return.
\* Else the success reply is sent and _forward is entered; a sendall that raises
\* here leaves handle() through the finally clause.
HOpen ==
    /\ h.pc = "h_open"
    /\ \E granted \in BOOLEAN, sent \in SendOutcomes :
         LET target == [host |-> h.dest_addr, port |-> h.dest_port, orig |-> "peer"]
         IN  h' = IF granted /\ sess[h.trans].st = "active"
                  THEN LET H == [h EXCEPT !.chan = [st |-> "open"] @@ target]
                       IN  IF sent
                           THEN [H EXCEPT !.pc = "h_forward", !.relayed = TRUE,
                                          !.sent = Append(@, Reply(RepSucceeded))]
                           ELSE HEnd(H)
                  ELSE ReplyAndEnd([h EXCEPT !.chan = [st |-> "failed"] @@ target],
                                   OpenFailedReply, sent)
    /\ UNCHANGED <<life, side, client, nClients, earlier>>

\* _forward (proxy.py 93-109) comes to its end: the channel is closed in its
\* finally clause, then handle() closes the client socket.
HForward ==
    /\ h.pc = "h_forward"
    /\ h' = HEnd([h EXCEPT !.chan.st = "closed"])
    /\ UNCHANGED <<life, side, client, nClients, earlier>>

\* How far a handler got: it ended without asking for a channel, it ended after
\* asking for one, or it has not ended.
Outcome(H) ==
    IF H.pc # "closed" THEN "running"
    ELSE IF H.chan.st = "none" THEN "rejected" ELSE "served"

\* The handler threads share nothing but the transport: the handler followed
\* so far is left to itself and the next client can be followed.
HandlerLeft ==
    /\ h.pc # "none"
    /\ earlier' = earlier \cup {Outcome(h)}
    /\ h' = NoHandler
    /\ client' = NoClient
    /\ UNCHANGED <<life, side, nClients>>

\* A tunnel established in direct mode.
TunnelUp ==
    /\ cfg = [mode |-> "1_hop", hop1 |-> "ok", hop2 |-> "ok"]
    /\ pc = "idle"
    /\ attempt = 0
    /\ exc = "none"
    /\ ssh_client = 1
    /\ relay_client = None
    /\ socks_proxy = 1
    /\ sess = [i \in SessIds |-> IF i = 1 THEN [NoSess EXCEPT !.st = "active"] ELSE NoSess]
    /\ prox = [p \in ProxIds |->
                 IF p = 1 THEN [NoProx EXCEPT !.st = "bound", !.srv = "running", !.trans = 1]
                 ELSE NoProx]
    /\ monActive = TRUE
    /\ monThreads = 1
    /\ flowThreads = 0
    /\ sysProxy = TRUE
    /\ nSess = 1
    /\ nProx = 1
    /\ lastOp = "connect"
    /\ result = [ok |-> TRUE, err |-> "none"]
    /\ attempts = 1
    /\ waited = 0
    /\ pre = NoPre
    /\ nConnects = 1
    /\ dcount = 0

\* No client accepted yet.
InitSocks ==
    /\ TunnelUp
    /\ NoFollowed
    /\ NoSide

NextSocks ==
    \/ SocksAccept
    \/ HGreeting
    \/ HMethods
    \/ HDetails
    \/ HAddr4
    \/ HAddrLen
    \/ HAddrName
    \/ HPort
    \/ HOpen
    \/ HForward
    \/ HandlerLeft
    \/ TransportDeath

SpecSocks == InitSocks /\ [][NextSocks]_vars

\* ------------------------------------------------- SocksHandler._forward()

\* SpecSocks takes _forward as the one step HForward; SpecRelay follows it
\* select by select for one flow, with the client and the channel writing and
\* closing beside it.

\* select.select([client, remote], [], [], 60) reports a side whose bytes have
\* arrived or that has closed.
ClientReady == flow.cr < Len(flow.cw) \/ flow.cend # "open"
RemoteReady == flow.rr < Len(flow.rw) \/ flow.rend # "open"

\* The bare `except:` of _forward (proxy.py 105) catches every exception.
ForwardCatches == TRUE

\* A relay step that leaves the loop: by `break` or by an exception.
Leave(F, err) == [F EXCEPT !.pc = "break", !.raised = err /\ ~ForwardCatches]

\* proxy.py 97-100: client.recv returns some of the bytes that have arrived,
\* b'' at EOF (break), or raises on a broken connection; remote.sendall raises
\* on a closed channel.
ClientHalf(F) ==
    IF F.cr < Len(F.cw)
    THEN {IF F.rend = "closed"
          THEN Leave([F EXCEPT !.cr = @ + k], TRUE)
          ELSE [F EXCEPT !.cr = @ + k, !.up = @ \o SubSeq(F.cw, F.cr + 1, F.cr + k)] :
            k \in 1..(Len(F.cw) - F.cr)}
    ELSE {Leave(F, F.cend = "reset")}

\* proxy.py 101-104: the same from the channel to the client; client.sendall
\* raises on a broken connection and may raise once the client has closed.
RemoteHalf(F) ==
    IF F.rr < Len(F.rw)
    THEN UNION {
           LET G == [F EXCEPT !.rr = @ + k]
               Sent == [G EXCEPT !.down = @ \o SubSeq(F.rw, F.rr + 1, F.rr + k)]
           IN  CASE F.cend = "open" -> {Sent}
                 [] F.cend = "eof" -> {Sent, Leave(G, TRUE)}
                 [] OTHER -> {Leave(G, TRUE)} :
             k \in 1..(Len(F.rw) - F.rr)}
    ELSE {Leave(F, FALSE)}

\* The finally clause of _forward without its close of the channel.
AfterForwardChannelLeft(H) == H

\* The finally clause of _forward (proxy.py 107-109): remote.close().
AfterForward(H) == [H EXCEPT !.chan.st = "closed"]

\* One pass of the loop of _forward (proxy.py 95-104) with something readable.
\* Leaving the loop runs the finally clause of _forward and then that of
\* handle(), which closes the client socket.
RelayRound ==
    /\ flow.pc = "select"
    /\ ClientReady \/ RemoteReady
    /\ \E F1 \in (IF ClientReady THEN ClientHalf(flow) ELSE {flow}) :
         \E F2 \in (IF F1.pc # "break" /\ RemoteReady THEN RemoteHalf(F1) ELSE {F1}) :
            IF F2.pc = "break"
            THEN /\ flow' = [F2 EXCEPT !.pc = "ended"]
                 /\ h' = HEnd(AfterForward(h))
            ELSE /\ flow' = F2
                 /\ h' = h
    /\ UNCHANGED <<life, tm, doc, client, nClients, earlier>>

\* select returns three empty lists after 60 s with nothing readable: neither
\* `if` is taken and the loop goes round.
RelayIdle ==
    /\ flow.pc = "select"
    /\ ~ClientReady /\ ~RemoteReady
    /\ flow.idle < MaxIdle
    /\ flow' = [flow EXCEPT !.idle = @ + 1]
    /\ UNCHANGED <<life, tm, doc, client, h, nClients, earlier>>

\* The two ends of the flow.  An orderly close (EOF) of the first side to close
\* fixes what the client had written by then.
ClientWrites ==
    /\ flow.pc = "select"
    /\ flow.cend = "open"
    /\ Len(flow.cw) < MaxPayload
    /\ flow' = [flow EXCEPT !.cw = Append(@, Len(@) + 1)]
    /\ UNCHANGED <<life, tm, doc, client, h, nClients, earlier>>

ChannelProduces ==
    /\ flow.pc = "select"
    /\ flow.rend = "open"
    /\ Len(flow.rw) < MaxPayload
    /\ flow' = [flow EXCEPT !.rw = Append(@, 100 + Len(@) + 1)]
    /\ UNCHANGED <<life, tm, doc, client, h, nClients, earlier>>

ClientCloses ==
    /\ flow.pc = "select"
    /\ flow.cend = "open"
    /\ \E how \in {"eof", "reset"} :
         flow' = [flow EXCEPT !.cend = how,
                              !.due = IF how = "eof" /\ flow.rend = "open"
                                      THEN Len(flow.cw) ELSE @]
    /\ UNCHANGED <<life, tm, doc, client, h, nClients, earlier>>

ChannelCloses ==
    /\ flow.pc = "select"
    /\ flow.rend = "open"
    /\ \E how \in {"eof", "closed"} :
         flow' = [flow EXCEPT !.rend = how,
                              !.due = IF how = "eof" /\ flow.cend = "open"
                                      THEN Len(flow.cw) ELSE @]
    /\ UNCHANGED <<life, tm, doc, client, h, nClients, earlier>>

\* A handler that has sent the success reply and entered _forward.
RelayClient == [inp |-> Greeting(SocksVer, 0) \o <<SocksVer, CmdConnect, 0, AtypIPv4>>
                          \o <<10, 0, 0, 1>> \o <<0, 80>>,
                after |-> "waits"]
RelayHandler ==
    [NoHandler EXCEPT
        !.pc = "h_forward", !.trans = 1, !.pos = Len(RelayClient.inp),
        !.details = <<SocksVer, CmdConnect, 0, AtypIPv4>>,
        !.dest_addr = [kind |-> "ip4", bytes |-> <<10, 0, 0, 1>>], !.dest_port = 80,
        !.sent = <<MethodReply, Reply(RepSucceeded)>>,
        !.chan = [st |-> "open", host |-> [kind |-> "ip4", bytes |-> <<10, 0, 0, 1>>],
                  port |-> 80, orig |-> "peer"],
        !.relayed = TRUE]

InitRelay ==
    /\ TunnelUp
    /\ client = RelayClient
    /\ h = RelayHandler
    /\ nClients = 1
    /\ earlier = {}
    /\ flow = [NoFlow EXCEPT !.pc = "select"]
    /\ tm = NoMon
    /\ doc = NoDoc

NextRelay ==
    \/ RelayRound
    \/ RelayIdle
    \/ ClientWrites
    \/ ChannelProduces
    \/ ClientCloses
    \/ ChannelCloses

SpecRelay == InitRelay /\ [][NextRelay]_vars

\* ------------------------------------------------------------ TrafficMonitor

\* The network moves bytes: psutil's cumulative counters grow.
NicTraffic ==
    /\ tm.traffic < MaxTraffic
    /\ \E dir \in {"recv", "sent"} :
         tm' = [tm EXCEPT !.traffic = @ + 1,
                          !.nic = IF dir = "recv" THEN [@ EXCEPT !.recv = @ + 1]
                                  ELSE [@ EXCEPT !.sent = @ + 1]]
    /\ UNCHANGED <<life, client, h, nClients, earlier, flow, doc>>

\* _monitor_loop 37-40: `while self.active`, sleep(1), then net_io_counters()
\* inside the try; when it raises, `except: pass` ends the pass with nothing
\* assigned.
TickSample(i) ==
    /\ tm.loops[i].pc = "sleep"
    /\ monActive
    /\ tm.ticks < MaxTicks
    /\ \E sampled \in BOOLEAN :
         tm' = IF sampled
               THEN [tm EXCEPT !.ticks = @ + 1, !.loops[i].pc = "w_rx",
                               !.loops[i].curr = tm.nic, !.loops[i].id = tm.ticks + 1]
               ELSE [tm EXCEPT !.ticks = @ + 1, !.failed = @ + 1]
    /\ UNCHANGED <<life, client, h, nClients, earlier, flow, doc>>

\* line 41: self.rx_speed = curr_io.bytes_recv - last_io.bytes_recv
TickRx(i) ==
    /\ tm.loops[i].pc = "w_rx"
    /\ tm' = [tm EXCEPT !.rx = tm.loops[i].curr.recv - tm.loops[i].last.recv,
                        !.tagRx = tm.loops[i].id, !.fresh = FALSE,
                        !.loops[i].pc = "w_tx"]
    /\ UNCHANGED <<life, client, h, nClients, earlier, flow, doc>>

\* line 42: self.tx_speed = curr_io.bytes_sent - last_io.bytes_sent
TickTx(i) ==
    /\ tm.loops[i].pc = "w_tx"
    /\ tm' = [tm EXCEPT !.tx = tm.loops[i].curr.sent - tm.loops[i].last.sent,
                        !.tagTx = tm.loops[i].id, !.fresh = FALSE,
                        !.loops[i].pc = "r_tot"]
    /\ UNCHANGED <<life, client, h, nClients, earlier, flow, doc>>

\* line 43, first half: `self.total_data += (self.rx_speed + self.tx_speed)`
\* reads the three attributes and adds; no lock is held, so another thread
\* can run before the result is stored.
TickAdd(i) ==
    /\ tm.loops[i].pc = "r_tot"
    /\ tm' = [tm EXCEPT !.loops[i].tmp = tm.total + (tm.rx + tm.tx),
                        !.loops[i].pc = "w_tot"]
    /\ UNCHANGED <<life, client, h, nClients, earlier, flow, doc>>

\* line 43, second half, and line 44: the sum is stored, last_io = curr_io.
TickStore(i) ==
    /\ tm.loops[i].pc = "w_tot"
    /\ LET L == tm.loops[i]
           d == [rx |-> L.curr.recv - L.last.recv, tx |-> L.curr.sent - L.last.sent]
       IN  tm' = [tm EXCEPT !.total = L.tmp, !.tagTot = L.id,
                            !.loops[i].last = L.curr, !.loops[i].pc = "sleep",
                            !.done = d, !.sum = @ + d.rx + d.tx, !.fresh = TRUE]
    /\ UNCHANGED <<life, client, h, nClients, earlier, flow, doc>>

MonitorLoop == \E i \in LoopIds : TickSample(i) \/ TickRx(i) \/ TickTx(i) \/ TickAdd(i) \/ TickStore(i)

\* get_formatted_stats 56-60: the three attributes are read one after the
\* other, without a lock, by the thread that draws the dashboard.
ReadRx ==
    /\ tm.reader.pc = "idle"
    /\ tm' = [tm EXCEPT !.reader.rx = tm.rx, !.reader.tagRx = tm.tagRx,
                        !.reader.pc = "r_tx"]
    /\ UNCHANGED <<life, client, h, nClients, earlier, flow, doc>>

ReadTx ==
    /\ tm.reader.pc = "r_tx"
    /\ tm' = [tm EXCEPT !.reader.tx = tm.tx, !.reader.tagTx = tm.tagTx,
                        !.reader.pc = "r_tot"]
    /\ UNCHANGED <<life, client, h, nClients, earlier, flow, doc>>

ReadTotal ==
    /\ tm.reader.pc = "r_tot"
    /\ tm' = [tm EXCEPT !.reader.total = tm.total, !.reader.tagTot = tm.tagTot,
                        !.reader.pc = "done"]
    /\ UNCHANGED <<life, client, h, nClients, earlier, flow, doc>>

\* The tunnel after connect(), disconnect() and connect() again, the monitor
\* loop of the first connect() not having seen active = False in between.
TunnelUpAgain ==
    /\ cfg = [mode |-> "1_hop", hop1 |-> "ok", hop2 |-> "ok"]
    /\ pc = "idle"
    /\ attempt = 0
    /\ exc = "none"
    /\ ssh_client = 2
    /\ relay_client = None
    /\ socks_proxy = 2
    /\ sess = [i \in SessIds |->
                 IF i = 1 THEN [NoSess EXCEPT !.st = "closed", !.closes = 1]
                 ELSE IF i = 2 THEN [NoSess EXCEPT !.st = "active"] ELSE NoSess]
    /\ prox = [p \in ProxIds |->
                 IF p = 1 THEN [NoProx EXCEPT !.st = "stopped", !.srv = "exited",
                                              !.stops = 1, !.trans = 1]
                 ELSE IF p = 2 THEN [NoProx EXCEPT !.st = "bound", !.srv = "running",
                                                   !.trans = 2]
                 ELSE NoProx]
    /\ monActive = TRUE
    /\ monThreads = 2
    /\ flowThreads = 0
    /\ sysProxy = TRUE
    /\ nSess = 2
    /\ nProx = 2
    /\ lastOp = "connect"
    /\ result = [ok |-> TRUE, err |-> "none"]
    /\ attempts = 1
    /\ waited = 0
    /\ pre = [NoPre EXCEPT !.ssh = 1, !.nSess = 1, !.nProx = 1, !.mon = 1]
    /\ nConnects = 2
    /\ dcount = 0

\* One monitor loop per live _monitor_loop thread, each just started (line 36).
InitMon ==
    /\ TunnelUp \/ TunnelUpAgain
    /\ NoFollowed
    /\ flow = NoFlow
    /\ doc = NoDoc
    /\ tm = [NoMon EXCEPT !.loops = [i \in LoopIds |->
                                       IF i <= monThreads
                                       THEN [NoLoop EXCEPT !.pc = "sleep"] ELSE NoLoop]]

NextMon ==
    \/ NicTraffic
    \/ MonitorLoop
    \/ ReadRx
    \/ ReadTx
    \/ ReadTotal

SpecMon == InitMon /\ [][NextMon]_vars

\* ---------------------------------------------------------------- AutoDoctor

\* str.lower() of a message (doctor.py 17).
LowerSkipped(m) == m
Lower(m) == [i \in DOMAIN m |-> [m[i] EXCEPT !.upper = FALSE]]

\* The patterns that are substrings of a text.
Within(text) ==
    IF text = "connection timed out" THEN {"connection timed out", "timed out"} ELSE {text}

\* `pat in error`: Python's substring test, which compares letters exactly.
In(pat, error) == \E i \in DOMAIN error : ~error[i].upper /\ pat \in Within(error[i].text)

\* analyze_error 15-111: the diagnosis dict, updated by the first branch of the
\* if/elif chain whose test holds.
analyze_error(error_msg) ==
    LET error == Lower(error_msg)
        diagnosis == [reason |-> "Unknown Error", fixable |-> FALSE, severity |-> "unknown",
                      category |-> "general", solutions |-> <<>>]
    IN  IF In("permission denied", error) \/ In("authentication failed", error)
        THEN [reason |-> "Authentication Failed", fixable |-> TRUE, severity |-> "high",
              category |-> "auth",
              solutions |-> <<"Check password", "Verify username",
                              "Check SSH key permissions", "Enable password authentication">>]
        ELSE IF In("too many authentication failures", error)
        THEN [reason |-> "Too Many Authentication Failures", fixable |-> TRUE,
              severity |-> "medium", category |-> "auth",
              solutions |-> <<"Reduce MaxAuthTries in sshd_config",
                              "Use SSH keys instead of passwords">>]
        ELSE IF In("connection refused", error)
        THEN [reason |-> "SSH Service Not Running or Port Closed", fixable |-> TRUE,
              severity |-> "high", category |-> "service",
              solutions |-> <<"Start SSH service", "Open firewall port",
                              "Check SSH port configuration">>]
        ELSE IF In("connection timed out", error) \/ In("timed out", error)
        THEN [reason |-> "Connection Timeout - Network or Firewall Issue", fixable |-> TRUE,
              severity |-> "medium", category |-> "network",
              solutions |-> <<"Check network connectivity", "Verify IP address",
                              "Check firewall rules", "Test with different port">>]
        ELSE IF In("no route to host", error) \/ In("network is unreachable", error)
        THEN [reason |-> "Network Routing Issue", fixable |-> FALSE, severity |-> "high",
              category |-> "network",
              solutions |-> <<"Check network configuration", "Verify IP reachability",
                              "Contact network administrator">>]
        ELSE IF In("channel setup failed", error) \/ In("tcp forwarding", error)
        THEN [reason |-> "TCP Forwarding Disabled", fixable |-> TRUE, severity |-> "high",
              category |-> "config",
              solutions |-> <<"Enable AllowTcpForwarding", "Enable GatewayPorts",
                              "Restart SSH service">>]
        ELSE IF In("broken pipe", error) \/ In("connection reset by peer", error)
        THEN [reason |-> "Connection Interrupted", fixable |-> TRUE, severity |-> "medium",
              category |-> "config",
              solutions |-> <<"Increase ClientAliveInterval", "Check network stability",
                              "Enable KeepAlive">>]
        ELSE IF In("host key verification failed", error)
        THEN [reason |-> "Host Key Changed or Verification Failed", fixable |-> TRUE,
              severity |-> "medium", category |-> "security",
              solutions |-> <<"Remove old host key from known_hosts",
                              "Verify server identity",
                              "Use StrictHostKeyChecking=no for testing">>]
        ELSE IF In("resource temporarily unavailable", error)
        THEN [reason |-> "Server Resource Limits", fixable |-> TRUE, severity |-> "medium",
              category |-> "system",
              solutions |-> <<"Check system resources", "Increase limits in limits.conf",
                              "Optimize server performance">>]
        ELSE diagnosis

\* main.py 134: diagnosis = doctor.analyze_error(msg)
Diagnose ==
    /\ doc.pc = "failed"
    /\ doc' = [doc EXCEPT !.pc = "diagnosed", !.diagnosis = analyze_error(doc.msg)]
    /\ UNCHANGED <<life, client, h, nClients, earlier, flow, tm>>

\* main.py 135-175: a diagnosis that is not fixable ends the matter; for a
\* fixable one the user is asked and repair_server is called on a yes.  msg and
\* diagnosis are not used again after that call.
AskRepair ==
    /\ doc.pc = "diagnosed"
    /\ IF ~doc.diagnosis.fixable
       THEN doc' = [doc EXCEPT !.pc = "not_fixable"]
       ELSE \E yes \in BOOLEAN :
              doc' = IF yes THEN [NoDoc EXCEPT !.pc = "probe"]
                     ELSE [doc EXCEPT !.pc = "cancelled"]
    /\ UNCHANGED <<life, client, h, nClients, earlier, flow, tm>>

\* _test_connectivity 138-147: the ping returned 0, or it did not, or running
\* it raised (False); repair_server 117-119 goes to the network script only
\* when the probe failed.
AfterProbeAlwaysNetwork(reachable) == "network_repair"
AfterProbe(reachable) == IF reachable THEN "ssh_repair" ELSE "network_repair"

TestConnectivity ==
    /\ doc.pc = "probe"
    /\ \E reachable \in BOOLEAN :
         doc' = [doc EXCEPT !.probe = IF reachable THEN "ok" ELSE "failed",
                            !.pc = AfterProbe(reachable)]
    /\ UNCHANGED <<life, client, h, nClients, earlier, flow, tm>>

\* _run_remote_script 357-406: (True, stdout) when the script's exit status
\* is 0, (False, stderr) when it is not, (False, str(e)) when connecting or
\* executing raised.  What the server does with the script is the server's.
RemoteOutcomes(op) == [ok : BOOLEAN, output : SUBSET SentinelsOf(op)]

\* One script run: its returned tuple kept, the script noted as run.
Ran(op, o) == [doc EXCEPT !.out[op] = o, !.ran = Append(@, op)]

\* _repair_network 149-178; the returned tuple is dropped.
RepairNetwork ==
    /\ doc.pc = "network_repair"
    /\ \E o \in RemoteOutcomes("network_repair") :
         doc' = [Ran("network_repair", o) EXCEPT !.pc = "ssh_repair"]
    /\ UNCHANGED <<life, client, h, nClients, earlier, flow, tm>>

\* repair_server 122-125: what follows the ssh script.
AfterSshRepairAnyway(success) == "security_fix"
AfterSshRepair(success) == IF success THEN "security_fix" ELSE "returned"

\* _repair_ssh_service 180-256 and repair_server 122-125: `if not success:
\* return False, ...`.
RepairSshService ==
    /\ doc.pc = "ssh_repair"
    /\ \E o \in RemoteOutcomes("ssh_repair") :
         doc' = IF AfterSshRepair(o.ok) = "returned"
                THEN [Ran("ssh_repair", o) EXCEPT !.pc = "returned", !.repaired = "no",
                                                  !.repair_msg = "SSH Service Repair Failed"]
                ELSE [Ran("ssh_repair", o) EXCEPT !.pc = AfterSshRepair(o.ok)]
    /\ UNCHANGED <<life, client, h, nClients, earlier, flow, tm>>

\* _repair_security 258-277; the returned tuple is dropped.
RepairSecurity ==
    /\ doc.pc = "security_fix"
    /\ \E o \in RemoteOutcomes("security_fix") :
         doc' = [Ran("security_fix", o) EXCEPT !.pc = "performance_opt"]
    /\ UNCHANGED <<life, client, h, nClients, earlier, flow, tm>>

\* _repair_performance 279-320; the returned tuple is dropped.
RepairPerformance ==
    /\ doc.pc = "performance_opt"
    /\ \E o \in RemoteOutcomes("performance_opt") :
         doc' = [Ran("performance_opt", o) EXCEPT !.pc = "verification"]
    /\ UNCHANGED <<life, client, h, nClients, earlier, flow, tm>>

\* _verify_repair 352-355: `success and "SSH_ACTIVE" in output and
\* "TCP_FORWARDING_ENABLED" in output`.
Verified(o) == o.ok /\ "SSH_ACTIVE" \in o.output /\ "TCP_FORWARDING_ENABLED" \in o.output

\* _verify_repair and the return of repair_server 132-137.
VerifyRepair ==
    /\ doc.pc = "verification"
    /\ \E o \in RemoteOutcomes("verification") :
         doc' = [Ran("verification", o) EXCEPT
                   !.pc = "returned",
                   !.verified = IF Verified(o) THEN "yes" ELSE "no",
                   !.repaired = IF Verified(o) THEN "yes" ELSE "no",
                   !.repair_msg = IF Verified(o) THEN "Comprehensive Repair Successful"
                                  ELSE "Repair completed but verification failed"]
    /\ UNCHANGED <<life, client, h, nClients, earlier, flow, tm>>

\* The manager after a connect() that failed: here the server rejected the
\* password on the first attempt (tunnel.py 73-91, 93-131).
ConnectFailed ==
    /\ cfg = [mode |-> "1_hop", hop1 |-> "ok", hop2 |-> "ok"]
    /\ pc = "idle"
    /\ attempt = 0
    /\ exc = "none"
    /\ ssh_client = 1
    /\ relay_client = None
    /\ socks_proxy = None
    /\ sess = [i \in SessIds |-> IF i = 1 THEN [NoSess EXCEPT !.st = "unauth"] ELSE NoSess]
    /\ prox = [p \in ProxIds |-> NoProx]
    /\ monActive = FALSE
    /\ monThreads = 0
    /\ flowThreads = 0
    /\ sysProxy = FALSE
    /\ nSess = 1
    /\ nProx = 0
    /\ lastOp = "connect"
    /\ result = [ok |-> FALSE, err |-> "auth"]
    /\ attempts = 1
    /\ waited = 0
    /\ pre = NoPre
    /\ nConnects = 1
    /\ dcount = 0

\* main.py 129-134 with every message analyze_error can be given.
InitDoctor ==
    /\ ConnectFailed
    /\ NoFollowed
    /\ flow = NoFlow
    /\ tm = NoMon
    /\ \E m \in ErrorMessages : doc = [NoDoc EXCEPT !.pc = "failed", !.msg = m]

NextDoctor ==
    \/ Diagnose
    \/ AskRepair
    \/ TestConnectivity
    \/ RepairNetwork
    \/ RepairSshService
    \/ RepairSecurity
    \/ RepairPerformance
    \/ VerifyRepair

SpecDoctor == InitDoctor /\ [][NextDoctor]_vars

\* ---------------------------------------------------------------------- claims

Returned(op) == pc = "idle" /\ lastOp = op

\* The failures the retry policy calls transient.
Transient == {"refused", "timeout", "ssherr"}

\* is_established() of the design: transport present and reported active.
Established ==
    ssh_client # None /\ HasTransport(sess, ssh_client) /\ IsActive(sess, ssh_client)

\* C1: a connect() whose attempt failed with a transient transport error
\* (connection refused, timeout, generic SSH error) does not return failure
\* before it has made max_retries attempts.
C1_TransientRetried ==
    (Returned("connect") /\ ~result.ok /\ result.err \in Transient)
        => attempts = max_retries

\* C2: a connect() that fails because authentication was rejected or because a
\* hop's address or port is empty returns failure after exactly one attempt
\* and without any backoff wait.
C2_TerminalAfterOneAttempt ==
    (Returned("connect") /\ result.err \in {"auth", "config", "valueerr"})
        => (~result.ok /\ attempts = 1 /\ waited = 0)

C2_Witness ==
    /\ Returned("connect")
    /\ result.err = "auth"
    /\ attempts = 1
    /\ cfg.mode = "2_hop"

\* C3: a connect() never makes more than max_retries attempts, every backoff
\* wait is followed by another attempt, and a connect() that has returned has
\* waited exactly once between two attempts.
C3_AtMostThreeAttempts ==
    /\ attempts <= max_retries
    /\ (pc = "c_sleep" => attempts < max_retries)
    /\ (Returned("connect") => waited = retry_delay * (attempts - 1))

C3_Witness ==
    /\ Returned("connect")
    /\ attempts = max_retries
    /\ waited = retry_delay * 2

\* C4: when connect() has returned failure, no SSH session it opened is still
\* open, no listener it created is bound, and it has neither started the
\* monitor nor registered the system proxy.
C4_FailureLeavesNothing ==
    (Returned("connect") /\ ~result.ok) =>
        /\ \A c \in SessIds : c > pre.nSess => sess[c].st # "active"
        /\ \A p \in ProxIds : p > pre.nProx => prox[p].st # "bound"
        /\ monThreads <= pre.mon
        /\ (sysProxy => pre.reg)

\* C5: a connect() called while the manager's session is up creates no SSH
\* session and no listener, leaves the manager's session, relay and listener
\* as they were, and returns the AlreadyConnected error.
C5_AlreadyConnected ==
    ((pc \in ConnectPcs \/ Returned("connect")) /\ pre.est) =>
        /\ nSess = pre.nSess
        /\ nProx = pre.nProx
        /\ ssh_client = pre.ssh
        /\ relay_client = pre.relay
        /\ socks_proxy = pre.proxy
        /\ (Returned("connect") => result = [ok |-> FALSE, err |-> "already"])

\* C6: between operations the established check yields a boolean, true exactly
\* when the manager's SSH transport is present and active; it never fails.
C6_EstablishedCheckIsBoolean ==
    pc = "idle" => EstablishedCheck = (IF Established THEN "True" ELSE "False")

\* What a run of disconnect() calls must leave alone once the first has returned.
Owned ==
    <<ssh_client, relay_client, socks_proxy,
      [p \in ProxIds |-> <<prox[p].st, prox[p].srv, prox[p].stops>>], monActive, sysProxy,
      IF ssh_client = None THEN "none" ELSE sess[ssh_client].st,
      IF relay_client = None THEN "none" ELSE sess[relay_client].st>>

Released(c) ==
    c # None =>
        /\ ~HasTransport(sess, c)
        /\ (sess[c].st = "closed") = (sess[c].closes = 1)

\* C7: disconnect() is idempotent.  No listener and no SSH session is ever
\* closed twice; once disconnect() has returned the manager holds no listener
\* and its sessions have no transport; the listener it held when called is
\* stopped by the call; and the second and later calls of a run change nothing
\* the manager owns.
C7_DisconnectIdempotent ==
    /\ [](/\ \A c \in SessIds : sess[c].closes <= 1
          /\ \A p \in ProxIds : prox[p].stops <= 1
          /\ (Returned("disconnect") =>
                /\ socks_proxy = None
                /\ Released(ssh_client)
                /\ Released(relay_client)))
    /\ [][/\ (pc = "d_listener" /\ pc' # pc /\ socks_proxy # None
              /\ prox[socks_proxy].st = "bound")
                => (prox'[socks_proxy].st = "stopped" /\ prox'[socks_proxy].stops = 1)
          /\ (pc \in DiscPcs /\ dcount >= 2) => Owned' = Owned]_vars

C7_Witness ==
    /\ Returned("disconnect")
    /\ dcount >= 2
    /\ relay_client # None
    /\ sess[relay_client].closes = 1
    /\ ssh_client # None
    /\ sess[ssh_client].closes = 1
    /\ \E p \in ProxIds : prox[p].stops = 1

\* C8: once disconnect() has returned, no listener created by the manager is
\* bound to local_port.
C8_NoListenerAfterDisconnect ==
    Returned("disconnect") => \A p \in ProxIds : prox[p].st # "bound"

\* C9: once disconnect() has returned, the serving thread, the monitor loop
\* and every per-flow thread have finished.
C9_ThreadsJoined ==
    Returned("disconnect") =>
        /\ monThreads = 0
        /\ flowThreads = 0
        /\ \A p \in ProxIds : prox[p].srv # "running"

\* C10: a step of disconnect() closes the egress session only once the listener
\* is stopped, the relay session only once the egress session is closed too,
\* stops the monitor only once the relay session is closed too, and unregisters
\* the system proxy only once the monitor is stopped too; a step that stops the
\* listener does nothing else.
ListenerDone == socks_proxy = None
EgressDone == ssh_client = None \/ ~HasTransport(sess, ssh_client)
RelayDone == relay_client = None \/ ~HasTransport(sess, relay_client)
MonitorDone == ~monActive

C10_TeardownOrder ==
    [][(pc \in DiscPcs /\ pc' # pc) =>
        LET closes(c) == c # None /\ sess[c].st # "closed" /\ sess'[c].st = "closed"
            closesEgress == closes(ssh_client)
            closesRelay == closes(relay_client)
            stopsMonitor == monActive /\ ~monActive'
            unregisters == sysProxy /\ ~sysProxy'
        IN  /\ (prox' # prox) =>
                  ~(closesEgress \/ closesRelay \/ stopsMonitor \/ unregisters)
            /\ closesEgress => ListenerDone
            /\ closesRelay => (ListenerDone /\ EgressDone)
            /\ stopsMonitor => (ListenerDone /\ EgressDone /\ RelayDone)
            /\ unregisters => (ListenerDone /\ EgressDone /\ RelayDone /\ MonitorDone)]_vars

C10_Witness ==
    /\ pc = "d_sysproxy"
    /\ dcount = 1
    /\ sysProxy
    /\ ~monActive
    /\ relay_client # None
    /\ sess[relay_client].st = "closed"
    /\ ssh_client # None
    /\ sess[ssh_client].st = "closed"
    /\ \E p \in ProxIds : prox[p].st = "stopped"

\* C11: disconnect() never raises, and whenever it has ended, by whatever way,
\* the monitor is stopped and the system proxy is unregistered.
C11_DisconnectNeverRaises ==
    /\ lastOp # "disconnect_raised"
    /\ (pc = "idle" /\ lastOp \in {"disconnect", "disconnect_raised"})
          => ~monActive /\ ~sysProxy

\* C12: a disconnect() run by the exit path during connect() can always take its
\* next step, and once the process has exited no session is open and no
\* listener is bound.
C12_InterruptedDisconnectEnds ==
    lastOp = "interrupted" =>
        /\ pc \in DiscPcs =>
              ENABLED (StopListener \/ CloseEgress \/ CloseRelay \/ StopMonitor
                         \/ UnregisterProxy)
        /\ pc = "exited" =>
              /\ \A c \in SessIds : ~IsActive(sess, c)
              /\ \A p \in ProxIds : prox[p].st # "bound"

\* The manager's listener is bound to local_port and its serving thread runs.
Listening ==
    /\ socks_proxy # None
    /\ prox[socks_proxy].st = "bound"
    /\ prox[socks_proxy].srv = "running"

\* C13: when connect() is about to register the system proxy, and when it has
\* returned success, the SOCKS listener is bound and accepting.
C13_ListenerBeforeRegistration ==
    (pc = "c_sysproxy" \/ (Returned("connect") /\ result.ok)) => Listening

C13_Witness == Returned("connect") /\ result.ok /\ sysProxy /\ Listening

\* C14: a successful bridge connect() has created exactly two sessions, the
\* relay and then the egress whose stream is a channel of the relay, and its
\* proxy works on the egress session; in bridge mode every channel asked for by
\* a SOCKS flow is on a session that runs over a relay and carries no session.
C14_BridgeTwoSessions ==
    cfg.mode = "2_hop" =>
        /\ (Returned("connect") /\ result.ok) =>
              /\ nSess = pre.nSess + 2
              /\ relay_client = pre.nSess + 1
              /\ ssh_client = pre.nSess + 2
              /\ sess[relay_client].via = None
              /\ sess[ssh_client].via = relay_client
              /\ prox[socks_proxy].trans = ssh_client
        /\ \A p \in ProxIds : \A c \in prox[p].chans :
              /\ sess[c].via # None
              /\ \A i \in SessIds : sess[i].via # c

C14_Witness ==
    /\ cfg.mode = "2_hop"
    /\ Returned("connect") /\ result.ok
    /\ prox[socks_proxy].chans = {ssh_client}

\* A hop record with an empty field.
Incomplete(hop) == hop \in {"no_ip", "no_port"}

\* C15: a bridge connect() with an incomplete hop returns the configuration
\* error without having created or connected any SSH client; a direct
\* connect() fails on the configuration only for what hop1 holds.
C15_ConfigCheckedFirst ==
    Returned("connect") =>
        /\ (cfg.mode = "2_hop" /\ (Incomplete(cfg.hop1) \/ Incomplete(cfg.hop2))
               /\ "nokey" \notin {cfg.hop1, cfg.hop2}) =>
              /\ ~result.ok
              /\ result.err = "config"
              /\ nSess = pre.nSess
        /\ cfg.mode = "1_hop" =>
              /\ result.err = "config" => cfg.hop1 = "no_ip"
              /\ result.err = "valueerr" => cfg.hop1 = "no_port"
              /\ result.err = "keyerr" => cfg.hop1 = "nokey"

\* ---- what the client's bytes say (RFC 1928), read off the whole input

GreetLen(m) == 2 + m[2]
GoodGreeting(m) == Len(m) >= 2 /\ m[1] = SocksVer /\ Len(m) >= GreetLen(m)
Req(m) == SubSeq(m, GreetLen(m) + 1, Len(m))
AddrFieldLen(r) == IF r[4] = AtypIPv4 THEN 4 ELSE 1 + r[5]
Truncated(r) ==
    /\ Len(r) >= 4
    /\ r[4] \in {AtypIPv4, AtypDomain}
    /\ Len(r) < 5 \/ Len(r) < 4 + AddrFieldLen(r) + 2
EncodedHost(r) ==
    IF r[4] = AtypIPv4 THEN [kind |-> "ip4", bytes |-> SubSeq(r, 5, 8)]
    ELSE [kind |-> "name", bytes |-> SubSeq(r, 6, 5 + r[5])]
EncodedPort(r) == r[Len(r) - 1] * 256 + r[Len(r)]

\* A complete CONNECT request for an IPv4 or domain address after a good greeting.
WellFormedConnect(m) ==
    /\ GoodGreeting(m)
    /\ Len(Req(m)) >= 5
    /\ Req(m)[1] = SocksVer
    /\ Req(m)[2] = CmdConnect
    /\ Req(m)[4] \in {AtypIPv4, AtypDomain}
    /\ Len(Req(m)) = 4 + AddrFieldLen(Req(m)) + 2

\* The malformed openings: greeting VER # 5; after a good greeting a request
\* with CMD # 1, with ATYP IPv6 or unknown, or cut off inside address or port.
Malformed(m) ==
    \/ Len(m) >= 1 /\ m[1] # SocksVer
    \/ /\ GoodGreeting(m)
       /\ \/ Len(Req(m)) >= 2 /\ Req(m)[2] # CmdConnect
          \/ Len(Req(m)) >= 4 /\ Req(m)[4] \notin {AtypIPv4, AtypDomain}
          \/ Truncated(Req(m))

Sent(msg) == \E i \in 1..Len(h.sent) : h.sent[i] = msg
Followed == h.pc # "none"
StillServing == (h.pc = "none" /\ nClients < MaxClients) => ENABLED SocksAccept

\* C16: a handler given a malformed opening never asks for an SSH channel and,
\* once it has ended, has closed the client socket; the listener then accepts
\* the next client.
C16_MalformedRejected ==
    /\ (Followed /\ Malformed(client.inp)) =>
          /\ h.chan.st = "none"
          /\ h.pc = "closed" => h.closed
    /\ StillServing

\* C17: for a request whose VER byte is not 5, read by the handler as the client
\* sent it, no SSH channel is asked for and no success reply is sent.
C17_RequestVersionChecked ==
    (/\ Followed
     /\ GoodGreeting(client.inp)
     /\ Len(h.details) = 4
     /\ Len(Req(client.inp)) >= 4
     /\ h.details = SubSeq(Req(client.inp), 1, 4)
     /\ h.details[1] # SocksVer) =>
        /\ h.chan.st = "none"
        /\ ~Sent(Reply(RepSucceeded))

\* C18: for a well-formed CONNECT request the handler has, at each field, read
\* exactly the bytes before it, asks for the channel to the host and port the
\* request encodes with the peer as originator, and does not end without
\* asking while the client stays connected.
C18_ExactTarget ==
    (Followed /\ WellFormedConnect(client.inp)) =>
        /\ h.pc = "h_details" => h.pos = GreetLen(client.inp)
        /\ h.pc = "h_port" => h.pos = Len(client.inp) - 2
        /\ h.pc = "h_open" => h.pos = Len(client.inp)
        /\ h.chan.st # "none" =>
              /\ h.chan.host = EncodedHost(Req(client.inp))
              /\ h.chan.port = EncodedPort(Req(client.inp))
              /\ h.chan.orig = "peer"
        /\ (h.pc = "closed" /\ client.after = "waits") => h.chan.st # "none"

\* C19: when the handler of a request with CMD # 1 has ended, the client socket
\* is closed, no channel was asked for and a client that stayed connected was
\* sent the method choice and then 05 07 00 01 00 00 00 00 00 00; the listener
\* accepts the next client.
C19_CommandNotSupported ==
    /\ (/\ Followed
        /\ GoodGreeting(client.inp)
        /\ Len(Req(client.inp)) >= 4
        /\ Req(client.inp)[2] # CmdConnect
        /\ h.pc = "closed") =>
          /\ h.closed
          /\ h.chan.st = "none"
          /\ client.after = "waits" =>
                h.sent = <<MethodReply, Reply(RepCommandNotSupported)>>
    /\ StillServing

\* C20: when open_channel has failed the handler has ended with the client
\* socket closed, without a success reply and without a relay, and the last
\* thing sent to a client that stayed connected is 05 04 00 01 00 00 00 00 00 00.
C20_ChannelFailureReply ==
    (Followed /\ h.chan.st = "failed") =>
        /\ h.pc = "closed"
        /\ h.closed
        /\ ~h.relayed
        /\ ~Sent(Reply(RepSucceeded))
        /\ client.after = "waits" =>
              /\ h.sent # <<>>
              /\ h.sent[Len(h.sent)] = Reply(RepHostUnreachable)

C20_Witness ==
    /\ h.chan.st = "failed"
    /\ sess[h.trans].st = "active"
    /\ client.after = "waits"
    /\ h.sent = <<MethodReply, Reply(RepHostUnreachable)>>

\* C21: in a relayed flow the bytes passed to the channel are a prefix of what
\* the client wrote and the bytes passed to the client a prefix of what the
\* channel produced; and when the relay has ended with the channel still
\* taking bytes and the client's connection not broken, everything the client
\* had written when the first side closed has been passed to the channel.
C21_RelayDelivers ==
    flow.pc # "none" =>
        /\ Len(flow.up) <= Len(flow.cw)
        /\ flow.up = SubSeq(flow.cw, 1, Len(flow.up))
        /\ Len(flow.down) <= Len(flow.rw)
        /\ flow.down = SubSeq(flow.rw, 1, Len(flow.down))
        /\ (flow.pc = "ended" /\ flow.rend # "closed" /\ flow.cend # "reset")
              => Len(flow.up) >= flow.due

\* C22: once a select of the relay has timed out with neither side readable,
\* the relay has ended.
C22_IdleRelayEnds == flow.idle > 0 => flow.pc = "ended"

\* C23: when a relay has ended, by EOF or by an error, the client socket and
\* the SSH channel of the flow are closed and no exception has left _forward.
C23_RelayExitClosesBoth ==
    flow.pc = "ended" =>
        /\ h.pc = "closed"
        /\ h.closed
        /\ h.chan.st = "closed"
        /\ ~flow.raised

C23_Witness ==
    /\ flow.pc = "ended"
    /\ flow.cend = "reset"
    /\ h.closed
    /\ h.chan.st = "closed"

\* The bytes the handler followed asks its next recv for; it waits for its own
\* client when none has arrived and the client has not closed.
Wanted ==
    CASE h.pc = "h_greet" -> 2
      [] h.pc = "h_methods" -> h.nmethods
      [] h.pc = "h_details" -> 4
      [] h.pc = "h_addr4" -> 4
      [] h.pc = "h_alen" -> 1
      [] h.pc = "h_aname" -> h.addr_len
      [] h.pc = "h_port" -> 2
      [] OTHER -> 0
AwaitsOwnClient == h.pc \notin {"h_open", "h_forward"} /\ Recv(Wanted) = {}

C25_ReaderSeesOneTick ==
    tm.reader.pc = "done" =>
        /\ tm.reader.tagRx = tm.reader.tagTx
        /\ tm.reader.tagTx = tm.reader.tagTot

\* C26: right after a pass of the monitor has completed, rx and tx are the
\* differences of the NIC counters between that pass and the previous
\* successful pass of its loop and total is the sum of the deltas of all
\* completed passes; a pass whose sampling fails changes none of the three.
C26_TickAccounting ==
    /\ [](tm.fresh =>
            /\ tm.rx = tm.done.rx
            /\ tm.tx = tm.done.tx
            /\ tm.total = tm.sum)
    /\ [][tm'.failed > tm.failed =>
            <<tm.rx, tm.tx, tm.total>>' = <<tm.rx, tm.tx, tm.total>>]_vars

\* The pattern table of the design, in its order of priority.
PatternTable ==
    << [patterns |-> {"permission denied", "authentication failed"},
        category |-> "auth", severity |-> "high", fixable |-> TRUE],
       [patterns |-> {"too many authentication failures"},
        category |-> "auth", severity |-> "medium", fixable |-> TRUE],
       [patterns |-> {"connection refused"},
        category |-> "service", severity |-> "high", fixable |-> TRUE],
       [patterns |-> {"connection timed out", "timed out"},
        category |-> "network", severity |-> "medium", fixable |-> TRUE],
       [patterns |-> {"no route to host", "network is unreachable"},
        category |-> "network", severity |-> "high", fixable |-> FALSE],
       [patterns |-> {"channel setup failed", "tcp forwarding"},
        category |-> "config", severity |-> "high", fixable |-> TRUE],
       [patterns |-> {"broken pipe", "connection reset by peer"},
        category |-> "config", severity |-> "medium", fixable |-> TRUE],
       [patterns |-> {"host key verification failed"},
        category |-> "security", severity |-> "medium", fixable |-> TRUE],
       [patterns |-> {"resource temporarily unavailable"},
        category |-> "system", severity |-> "medium", fixable |-> TRUE] >>

\* The rows of the table with a pattern occurring in a message, letter case
\* disregarded.
RowsHit(m) ==
    {r \in DOMAIN PatternTable :
        \E i \in DOMAIN m : PatternTable[r].patterns \cap Within(m[i].text) # {}}

\* The first of a non-empty set of rows.
FirstRow(rows) == CHOOSE r \in rows : \A q \in rows : r <= q

\* Category, severity and fixable flag of a diagnosis.
Verdict(d) == <<d.category, d.severity, d.fixable>>

\* C27: the diagnosis of a message has the category, severity and fixable flag
\* of the first row of the pattern table with a pattern occurring in the
\* message in any letter case, and general/unknown/not fixable when there is
\* no such row.
C27_FirstMatchDiagnosis ==
    doc.pc = "diagnosed" =>
        Verdict(doc.diagnosis) =
            IF RowsHit(doc.msg) = {} THEN <<"general", "unknown", FALSE>>
            ELSE Verdict(PatternTable[FirstRow(RowsHit(doc.msg))])

\* A message in capitals with patterns of two rows has been diagnosed.
C27_Witness ==
    /\ doc.pc = "diagnosed"
    /\ \E r, q \in RowsHit(doc.msg) : r # q
    /\ \A i \in DOMAIN doc.msg : doc.msg[i].upper
    /\ doc.diagnosis.category = PatternTable[FirstRow(RowsHit(doc.msg))].category

\* The remedy list of the auth category.
AuthRemedies ==
    <<"Check password", "Verify username", "Check SSH key permissions",
      "Enable password authentication">>

\* C28: every diagnosis of category auth carries the remedy list of the auth
\* category: Check password; Verify username; Check SSH key permissions;
\* Enable password authentication.
C28_AuthRemedies ==
    (doc.pc = "diagnosed" /\ doc.diagnosis.category = "auth") =>
        doc.diagnosis.solutions = AuthRemedies

\* C29: a repair attempt returns success exactly when the ssh repair script and
\* the verification both succeeded, whatever the probe and the network,
\* security and performance scripts returned.
C29_RepairResult ==
    doc.pc = "returned" =>
        (doc.repaired = "yes" <=> (doc.out["ssh_repair"].ok /\ doc.verified = "yes"))

\* A repair has returned success although the probe and the network, security
\* and performance scripts all failed.
C29_Witness ==
    /\ doc.pc = "returned"
    /\ doc.repaired = "yes"
    /\ doc.probe = "failed"
    /\ doc.ran = <<"network_repair", "ssh_repair", "security_fix", "performance_opt",
                   "verification">>
    /\ \A o \in {"network_repair", "security_fix", "performance_opt"} : ~doc.out[o].ok

\* C30: the verification succeeds only if SSH_ACTIVE, TCP_FORWARDING_ENABLED and
\* FIREWALL_OPEN are all in the output of the verification script.
C30_VerificationNeedsAllSentinels ==
    doc.verified = "yes" =>
        {"SSH_ACTIVE", "TCP_FORWARDING_ENABLED", "FIREWALL_OPEN"}
            \subseteq doc.out["verification"].output

\* A script of the repair has been run.
HasRun(op) == \E i \in DOMAIN doc.ran : doc.ran[i] = op

\* C31: a repair whose ssh repair script did not print SSH_REPAIR_COMPLETE
\* returns failure, whatever the exit status of the script.
C31_SshRepairNeedsSentinel ==
    (doc.pc = "returned" /\ HasRun("ssh_repair")
       /\ "SSH_REPAIR_COMPLETE" \notin doc.out["ssh_repair"].output)
        => doc.repaired = "no"

\* The scripts of a repair in their order, after a probe that failed or not.
PhaseOrder(probe) ==
    IF probe = "failed"
    THEN <<"network_repair", "ssh_repair", "security_fix", "performance_opt", "verification">>
    ELSE <<"ssh_repair", "security_fix", "performance_opt", "verification">>

\* C32: the probe comes first and the scripts run in the order network repair,
\* ssh repair, security, performance, verification; the network repair has run
\* exactly when the probe failed; after a failed ssh repair nothing more runs.
C32_PhaseOrder ==
    /\ doc.ran # <<>> => doc.probe # "none"
    /\ Len(doc.ran) <= Len(PhaseOrder(doc.probe))
    /\ doc.ran = SubSeq(PhaseOrder(doc.probe), 1, Len(doc.ran))
    /\ doc.pc \in {"ssh_repair", "security_fix", "performance_opt", "verification", "returned"}
         => (HasRun("network_repair") <=> doc.probe = "failed")
    /\ (HasRun("ssh_repair") /\ ~doc.out["ssh_repair"].ok)
         => (doc.pc = "returned" /\ doc.ran[Len(doc.ran)] = "ssh_repair")

\* A repair has ended at the failed ssh repair, the network repair having run
\* after a failed probe.
C32_Witness ==
    /\ doc.pc = "returned"
    /\ doc.probe = "failed"
    /\ doc.ran = <<"network_repair", "ssh_repair">>
    /\ ~doc.out["ssh_repair"].ok

\* A listener is bound or an SSH session is open.
SomethingOpen ==
    \/ \E p \in ProxIds : prox[p].st = "bound"
    \/ \E c \in SessIds : sess[c].st = "active"

\* C33: a connect() called after a settings edit, with no disconnect() between
\* the two, finds no bound listener and no open SSH session.
C33_EditThenConnectFindsNothingOpen ==
    [][(lastOp = "settings" /\ pc = "idle" /\ pc' = "c_try") => ~SomethingOpen]_vars

\* C34: at most one _monitor_loop thread is alive, whatever connect() and
\* disconnect() calls were made.
C34_OneMonitorLoop == monThreads <= 1

\* C35: every listener that is bound is the one the manager refers to, and
\* every SSH session that is open is one the manager refers to.
C35_ManagerOwnsWhatIsOpen ==
    /\ \A p \in ProxIds : prox[p].st = "bound" => socks_proxy = p
    /\ \A c \in SessIds : sess[c].st = "active" => c \in {ssh_client, relay_client}

\* C36: when a handler has ended, no channel it opened is still open.
C36_HandlerEndClosesChannel == h.pc = "closed" => h.chan.st # "open"

====
